---- MODULE Spec2Model ----
(***************************************************************************)
(* Authentication session of daily_stats.py / daily_stats_all.py:          *)
(* the module-level flow, ensure_authenticated, the callback listener      *)
(* thread (start_local_server, CallbackHandler.do_GET) and the process-    *)
(* wide events AUTH_SUCCESS, SERVER_READY, CANCEL_EVENT and SERVER_STATE.  *)
(*                                                                         *)
(* Time is a discrete clock.  The waits of the source (5 s readiness,      *)
(* 30 s deadline, 0.25 s poll, 2 s join) are kept as waits on that clock,  *)
(* scaled down to a few ticks each.                                        *)
(***************************************************************************)
EXTENDS Integers, Sequences, FiniteSets, TLC

\* ------------------------------------------------------------- bounds
\* longest query string of a callback request, in key=value pairs
MaxParams == 2
\* requests one listener accepts
MaxRequests == 2
\* last tick of the clock
MaxClock == 2
\* SERVER_READY.wait(timeout=5), in ticks
ReadyTicks == 1
\* deadline = monotonic() + 30, in ticks
DeadlineTicks == 2
\* AUTH_SUCCESS.wait(timeout=min(0.25, remaining)), in ticks
PollTicks == 1
\* server_thread.join(timeout=2), in ticks
JoinTicks == 1
\* longest item list handed to the chunked uploader
MaxItems == 4
\* largest chunk_size
MaxChunk == 3
\* creation notifications delivered for one descriptor path
MaxNotifs == 2
\* the latest second datetime.now() gives, counted from the watcher's start
MaxStamp == 1
\* the statuses the health endpoint may answer with
FirstStatus == 100
LastStatus == 599

\* ---------------------------------------------------------- constants
\* preferred_port of start_local_server
PreferredPort == 11011
\* ports the OS hands out for a bind to port 0
EphemeralPorts == {49152, 49153}
\* SERVER_STATE = {"instance": None, "port": None}
NoInstance == 0
NoPort == 0
\* keyring.get_password gives None when nothing is stored
None == "None"
\* the two calls of ensure_authenticated in the module-level flow; a call's
\* listener thread and HTTPServer carry the number of the call
Sessions == {1, 2}
\* the descriptors dropped into the queue directory, by path
Jobs == {1, 2}
\* the threads creation notifications are delivered on; the watchdog observer
\* started by main() dispatches on one thread, the Dispatcher
Threads == {1, 2}
Dispatcher == 1
\* chunk_size: int = 100
DefaultChunk == 100
\* how many days, and how many ActivitySummary elements, an export holds:
\* none, fewer than a chunk, more than a chunk
DayCounts == {0, 3, DefaultChunk + 1}
ActCounts == {0, 1, DefaultChunk + 1}
\* the smallest chunk_size tried: range() takes any integer step
MinChunk == 0 - 1

\* query strings: sequences of key=value pairs
Pair == {[k |-> "token", v |-> ""], [k |-> "token", v |-> "a"],
         [k |-> "token", v |-> "b"], [k |-> "state", v |-> "a"]}
RECURSIVE SeqsUpTo(_, _)
SeqsUpTo(S, n) ==
    IF n = 0 THEN {<<>>}
    ELSE LET shorter == SeqsUpTo(S, n - 1)
         IN  shorter \cup {Append(q, x) : q \in {s \in shorter : Len(s) = n - 1}, x \in S}
Queries == SeqsUpTo(Pair, MaxParams)

VARIABLES
    pc,            \* position of the main thread
    call,          \* number of ensure_authenticated calls made so far
    exitCode,      \* status given to sys.exit, -1 while running
    tokenStore,    \* the keyring entry (APP_NAME, CRED_KEY)
    AUTH_SUCCESS,  \* threading.Event
    SERVER_READY,  \* threading.Event
    CANCEL_EVENT,  \* threading.Event
    SERVER_STATE,  \* {"instance", "port"}
    lst,           \* per session: its listener thread and HTTPServer
    extBusy,       \* another process holds the preferred port
    clock,         \* time.monotonic()
    waitUntil,     \* when the timed wait the main thread is in expires
    deadline,      \* local `deadline` of ensure_authenticated
    ea,            \* locals of the running ensure_authenticated call
    lastGet,       \* the last callback request handled and its answer
    flow,          \* what the module-level flow has done: validations, clearing
    up,            \* one call of _post_in_batches: arguments, POSTs issued, result
    desc,          \* per job: the descriptor file <id>_job.json in the queue
    xml,           \* per job: the export file the descriptor names
    processing,    \* HealthFileHandler.processing
    th,            \* per delivery thread: position in on_created / _process_job
    notifs,        \* per job: creation notifications delivered so far
    attempts,      \* per job: calls of process_xml made so far
    export,        \* per job: what the export file holds (days, activity summaries)
    owner,         \* per job: the user_id its descriptor gives, or "unknown"
    archive,       \* the files under PROCESSED_DIR: user directory, name, content
    wnow,          \* datetime.now(), in seconds
    health         \* one call of validate_token: the endpoint's answer, the result

\* the state of the command-line program, of the watcher and of both
avars == <<pc, call, exitCode, tokenStore, AUTH_SUCCESS, SERVER_READY, CANCEL_EVENT,
           SERVER_STATE, lst, extBusy, clock, waitUntil, deadline, ea, lastGet, flow,
           health>>
jvars == <<desc, xml, processing, th, notifs, attempts, export, owner, archive, wnow>>
wvars == <<up, jvars, health>>

vars == <<pc, call, exitCode, tokenStore, AUTH_SUCCESS, SERVER_READY, CANCEL_EVENT,
          SERVER_STATE, lst, extBusy, clock, waitUntil, deadline, ea, lastGet, flow,
          wvars>>

\* ------------------------------------------------------------ helpers
Min(a, b) == IF a <= b THEN a ELSE b

\* urlparse.parse_qs(query)[key]: the values of `key` in order, blank values
\* dropped (keep_blank_values is False)
RECURSIVE parse_qs(_, _)
parse_qs(query, key) ==
    IF query = <<>> THEN <<>>
    ELSE LET p == Head(query)
             rest == parse_qs(Tail(query), key)
         IN  IF p.k = key /\ p.v # "" THEN <<p.v>> \o rest ELSE rest

\* values[0] of params.get(key, [None])
FirstValue(values) == IF values = <<>> THEN None ELSE values[1]

\* variant for C8: the handler takes the last value, [-1], not the first
token_oauth_Last(query) ==
    LET values == parse_qs(query, "token")
    IN  IF values = <<>> THEN None ELSE values[Len(values)]

\* params.get("token", [None])[0]
token_oauth(query) == FirstValue(parse_qs(query, "token"))

\* ports held by a listening socket
PortsInUse ==
    {lst[s].port : s \in {t \in Sessions : lst[t].sockOpen}}
      \cup (IF extBusy THEN {PreferredPort} ELSE {})

Running == pc # "exited"

FreshListener ==
    [pc |-> "idle", port |-> NoPort, sockOpen |-> FALSE, prefBusy |-> FALSE,
     shutdown_request |-> FALSE, is_shut_down |-> FALSE,
     readySet |-> FALSE, portAtReady |-> NoPort,
     nreq |-> 0, ntok |-> 0, raised |-> 0, intime |-> FALSE]

FreshLocals ==
    [success |-> FALSE, exc |-> FALSE, target |-> NoInstance, urlPort |-> NoPort,
     browser |-> FALSE, ret |-> None, retLine |-> 0,
     entryToken |-> None, cancelAtEntry |-> FALSE, enteredWait |-> FALSE,
     polls |-> 0, obsReady |-> "none", obsSuccess |-> "none", targets |-> {},
     early |-> FALSE, cancelAtReturn |-> FALSE]

\* nothing validated, nothing cleared yet
FreshFlow ==
    [nvalid |-> 0, ninvalid |-> 0, cleared |-> "no", raised |-> FALSE, end |-> "none",
     validated |-> None, posted |-> None]

\* the command-line program at its start: `stored` is the keyring entry and
\* `busy` tells whether another process holds the preferred port
AuthInit(stored, busy) ==
    /\ pc = "m_args"
    /\ call = 0
    /\ exitCode = -1
    /\ tokenStore \in stored
    /\ AUTH_SUCCESS = FALSE
    /\ SERVER_READY = FALSE
    /\ CANCEL_EVENT = FALSE
    /\ SERVER_STATE = [instance |-> NoInstance, port |-> NoPort]
    /\ lst = [s \in Sessions |-> FreshListener]
    /\ extBusy \in busy
    /\ clock = 0
    /\ waitUntil = 0
    /\ deadline = 0
    /\ ea = FreshLocals
    /\ lastGet = [status |-> 0, sent |-> "absent"]
    /\ flow = FreshFlow

\* ------------------------------------------------ the listener thread
SetL(s, r) == lst' = [lst EXCEPT ![s] = r]

\* HTTPServer(("127.0.0.1", preferred_port), CallbackHandler), and on OSError
\* HTTPServer(("127.0.0.1", 0), CallbackHandler): the constructor binds and
\* listens.  Nothing in the source ever calls server_close().
Bind(s) ==
    /\ Running
    /\ lst[s].pc = "bind"
    /\ IF PreferredPort \notin PortsInUse
       THEN SetL(s, [lst[s] EXCEPT !.pc = "rec_instance", !.port = PreferredPort,
                                   !.sockOpen = TRUE, !.prefBusy = FALSE])
       ELSE \E p \in EphemeralPorts \ PortsInUse :
               SetL(s, [lst[s] EXCEPT !.pc = "rec_instance", !.port = p,
                                      !.sockOpen = TRUE, !.prefBusy = TRUE])
    /\ UNCHANGED <<pc, call, exitCode, tokenStore, AUTH_SUCCESS, SERVER_READY,
                   CANCEL_EVENT, SERVER_STATE, extBusy, clock, waitUntil, deadline, ea, lastGet, flow,
                   wvars>>

\* SERVER_STATE["instance"] = httpd
RecordInstance(s) ==
    /\ Running
    /\ lst[s].pc = "rec_instance"
    /\ SERVER_STATE' = [SERVER_STATE EXCEPT !.instance = s]
    /\ SetL(s, [lst[s] EXCEPT !.pc = "rec_port"])
    /\ UNCHANGED <<pc, call, exitCode, tokenStore, AUTH_SUCCESS, SERVER_READY,
                   CANCEL_EVENT, extBusy, clock, waitUntil, deadline, ea, lastGet, flow, wvars>>

\* variant for C6: the listener reports the port it asked for
server_port_Preferred(s) == PreferredPort

\* httpd.server_address[1]
server_port(s) == lst[s].port

\* SERVER_STATE["port"] = httpd.server_address[1]
RecordPort(s) ==
    /\ Running
    /\ lst[s].pc = "rec_port"
    /\ SERVER_STATE' = [SERVER_STATE EXCEPT !.port = server_port(s)]
    /\ SetL(s, [lst[s] EXCEPT !.pc = "set_ready"])
    /\ UNCHANGED <<pc, call, exitCode, tokenStore, AUTH_SUCCESS, SERVER_READY,
                   CANCEL_EVENT, extBusy, clock, waitUntil, deadline, ea, lastGet, flow, wvars>>

\* SERVER_READY.set()
SetReady(s) ==
    /\ Running
    /\ lst[s].pc = "set_ready"
    /\ SERVER_READY' = TRUE
    /\ SetL(s, [lst[s] EXCEPT !.pc = "serve_enter", !.readySet = TRUE,
                              !.portAtReady = SERVER_STATE.port])
    /\ UNCHANGED <<pc, call, exitCode, tokenStore, AUTH_SUCCESS, CANCEL_EVENT,
                   SERVER_STATE, extBusy, clock, waitUntil, deadline, ea, lastGet, flow, wvars>>

\* httpd.serve_forever(poll_interval=0.5) begins: __is_shut_down.clear()
\* (variant: serve_forever forgets a shutdown requested before it began)
ServeEnter_DropsRequest(s) ==
    /\ Running
    /\ lst[s].pc = "serve_enter"
    /\ SetL(s, [lst[s] EXCEPT !.pc = "serving", !.is_shut_down = FALSE,
                            !.shutdown_request = FALSE])
    /\ UNCHANGED <<pc, call, exitCode, tokenStore, AUTH_SUCCESS, SERVER_READY,
                   CANCEL_EVENT, SERVER_STATE, extBusy, clock, waitUntil, deadline, ea, lastGet, flow,
                   wvars>>

ServeEnter(s) ==
    /\ Running
    /\ lst[s].pc = "serve_enter"
    /\ SetL(s, [lst[s] EXCEPT !.pc = "serving", !.is_shut_down = FALSE])
    /\ UNCHANGED <<pc, call, exitCode, tokenStore, AUTH_SUCCESS, SERVER_READY,
                   CANCEL_EVENT, SERVER_STATE, extBusy, clock, waitUntil, deadline, ea, lastGet, flow,
                   wvars>>

\* the serve loop finds no shutdown request and a connection ready: it goes
\* on to _handle_request_noblock()
ServeAccept(s) ==
    /\ Running
    /\ lst[s].pc = "serving"
    /\ ~lst[s].shutdown_request
    /\ lst[s].nreq < MaxRequests
    /\ SetL(s, [lst[s] EXCEPT !.pc = "handling", !.nreq = @ + 1])
    /\ UNCHANGED <<pc, call, exitCode, tokenStore, AUTH_SUCCESS, SERVER_READY,
                   CANCEL_EVENT, SERVER_STATE, extBusy, clock, waitUntil, deadline,
                   ea, lastGet, flow, wvars>>

\* what the client sent as token: the first non-blank value of a token
\* parameter, "blank" when every token parameter is blank, "absent" when the
\* query string has no token parameter
\* the deadline of the wait loop of the running call has not passed (line
\* 146: deadline = systime.monotonic() + 30, line 155: remaining <= 0)
BeforeDeadline == ~(ea.enteredWait /\ clock >= deadline)

Sent(query) ==
    LET idx == {i \in 1..Len(query) : query[i].k = "token"}
        full == {i \in idx : query[i].v # ""}
    IN  IF idx = {} THEN "absent"
        ELSE IF full = {} THEN "blank"
        ELSE query[CHOOSE i \in full : \A j \in full : i <= j].v

\* variant for C7: AUTH_SUCCESS.set() comes before the test of the token
Respond_SignalFirst(s, query, tok) ==
    /\ AUTH_SUCCESS' = TRUE
    /\ IF tok # None /\ tok # ""
       THEN /\ tokenStore' = tok
            /\ SetL(s, [lst[s] EXCEPT !.pc = "serving", !.ntok = @ + 1, !.intime = @ \/ BeforeDeadline,
                                      !.raised = IF AUTH_SUCCESS THEN @ ELSE @ + 1])
            /\ lastGet' = [status |-> 200, sent |-> Sent(query)]
       ELSE /\ UNCHANGED tokenStore
            /\ SetL(s, [lst[s] EXCEPT !.pc = "serving"])
            /\ lastGet' = [status |-> 400, sent |-> Sent(query)]

\* variant for C9: the handler pulses the event, AUTH_SUCCESS.clear() and then
\* AUTH_SUCCESS.set(), so every token-bearing request raises it anew
Respond_Pulse(s, query, tok) ==
    IF tok # None /\ tok # ""
    THEN /\ tokenStore' = tok
         /\ AUTH_SUCCESS' = TRUE
         /\ SetL(s, [lst[s] EXCEPT !.pc = "serving", !.ntok = @ + 1, !.intime = @ \/ BeforeDeadline, !.raised = @ + 1])
         /\ lastGet' = [status |-> 200, sent |-> Sent(query)]
    ELSE /\ UNCHANGED <<tokenStore, AUTH_SUCCESS>>
         /\ SetL(s, [lst[s] EXCEPT !.pc = "serving"])
         /\ lastGet' = [status |-> 400, sent |-> Sent(query)]

\* variant for C31: the listener gives up after a request it answers with 400
Respond_StopOn400(s, query, tok) ==
    IF tok # None /\ tok # ""
    THEN /\ tokenStore' = tok
         /\ AUTH_SUCCESS' = TRUE
         /\ SetL(s, [lst[s] EXCEPT !.pc = "serving", !.ntok = @ + 1, !.intime = @ \/ BeforeDeadline,
                                   !.raised = IF AUTH_SUCCESS THEN @ ELSE @ + 1])
         /\ lastGet' = [status |-> 200, sent |-> Sent(query)]
    ELSE /\ UNCHANGED <<tokenStore, AUTH_SUCCESS>>
         /\ SetL(s, [lst[s] EXCEPT !.pc = "done", !.is_shut_down = TRUE])
         /\ lastGet' = [status |-> 400, sent |-> Sent(query)]

\* if token_oauth: store_token(token_oauth); AUTH_SUCCESS.set();
\* self.send_response(200) ... else: self.send_response(400) ...
Respond(s, query, tok) ==
    IF tok # None /\ tok # ""
    THEN /\ tokenStore' = tok
         /\ AUTH_SUCCESS' = TRUE
         /\ SetL(s, [lst[s] EXCEPT !.pc = "serving", !.ntok = @ + 1, !.intime = @ \/ BeforeDeadline,
                                   !.raised = IF AUTH_SUCCESS THEN @ ELSE @ + 1])
         /\ lastGet' = [status |-> 200, sent |-> Sent(query)]
    ELSE /\ UNCHANGED <<tokenStore, AUTH_SUCCESS>>
         /\ SetL(s, [lst[s] EXCEPT !.pc = "serving"])
         /\ lastGet' = [status |-> 400, sent |-> Sent(query)]

\* CallbackHandler.do_GET, on the query string of the request
DoGET(s) ==
    /\ Running
    /\ lst[s].pc = "handling"
    /\ \E query \in Queries : Respond(s, query, token_oauth(query))
    /\ UNCHANGED <<pc, call, exitCode, SERVER_READY, CANCEL_EVENT, SERVER_STATE,
                   extBusy, clock, waitUntil, deadline, ea, flow, wvars>>

\* CallbackHandler.do_GET statement by statement, with a keyring that may
\* refuse the write.  First step, on the query string of the request:
\* store_token(token_oauth), whose PasswordSetError nothing in do_GET catches
\* (it ends the handler with no answer sent; the serve loop goes on), or the
\* 400 answer.  Second step: AUTH_SUCCESS.set() and the 200 answer.
\* (variant: AUTH_SUCCESS.set() comes before store_token)
HandleToken_SignalFirst(s) ==
    /\ Running
    /\ \/ /\ lst[s].pc = "handling"
          /\ \E query \in Queries :
                LET tok == token_oauth(query) IN
                IF tok # None /\ tok # ""
                THEN /\ AUTH_SUCCESS' = TRUE
                     /\ SetL(s, [lst[s] EXCEPT !.pc = "stored", !.ntok = @ + 1,
                                               !.intime = @ \/ BeforeDeadline,
                                               !.raised = IF AUTH_SUCCESS THEN @ ELSE @ + 1])
                     /\ lastGet' = [status |-> 0, sent |-> Sent(query)]
                     /\ UNCHANGED tokenStore
                ELSE /\ SetL(s, [lst[s] EXCEPT !.pc = "serving"])
                     /\ lastGet' = [status |-> 400, sent |-> Sent(query)]
                     /\ UNCHANGED <<tokenStore, AUTH_SUCCESS>>
       \/ /\ lst[s].pc = "stored"
          /\ \E written \in BOOLEAN :
                /\ tokenStore' = IF written THEN lastGet.sent ELSE tokenStore
                /\ lastGet' = [lastGet EXCEPT !.status = IF written THEN 200 ELSE 0]
          /\ SetL(s, [lst[s] EXCEPT !.pc = "serving"])
          /\ UNCHANGED AUTH_SUCCESS
    /\ UNCHANGED <<pc, call, exitCode, SERVER_READY, CANCEL_EVENT, SERVER_STATE,
                   extBusy, clock, waitUntil, deadline, ea, flow, wvars>>

HandleToken(s) ==
    /\ Running
    /\ \/ /\ lst[s].pc = "handling"
          /\ \E query \in Queries :
                LET tok == token_oauth(query) IN
                IF tok # None /\ tok # ""
                THEN \E written \in BOOLEAN :
                        /\ tokenStore' = IF written THEN tok ELSE tokenStore
                        /\ SetL(s, [lst[s] EXCEPT
                                      !.pc = IF written THEN "stored" ELSE "serving"])
                        /\ lastGet' = [status |-> 0, sent |-> Sent(query)]
                        /\ UNCHANGED AUTH_SUCCESS
                ELSE /\ SetL(s, [lst[s] EXCEPT !.pc = "serving"])
                     /\ lastGet' = [status |-> 400, sent |-> Sent(query)]
                     /\ UNCHANGED <<tokenStore, AUTH_SUCCESS>>
       \/ /\ lst[s].pc = "stored"
          /\ AUTH_SUCCESS' = TRUE
          /\ SetL(s, [lst[s] EXCEPT !.pc = "serving", !.ntok = @ + 1,
                                    !.intime = @ \/ BeforeDeadline,
                                    !.raised = IF AUTH_SUCCESS THEN @ ELSE @ + 1])
          /\ lastGet' = [lastGet EXCEPT !.status = 200]
          /\ UNCHANGED tokenStore
    /\ UNCHANGED <<pc, call, exitCode, SERVER_READY, CANCEL_EVENT, SERVER_STATE,
                   extBusy, clock, waitUntil, deadline, ea, flow, wvars>>

\* the serve loop sees __shutdown_request (also on entry, when shutdown() came
\* first): serve_forever returns after __is_shut_down.set(), and the thread ends
ServeExit(s) ==
    /\ Running
    /\ lst[s].pc = "serving"
    /\ lst[s].shutdown_request
    /\ SetL(s, [lst[s] EXCEPT !.pc = "done", !.shutdown_request = FALSE,
                              !.is_shut_down = TRUE])
    /\ UNCHANGED <<pc, call, exitCode, tokenStore, AUTH_SUCCESS, SERVER_READY,
                   CANCEL_EVENT, SERVER_STATE, extBusy, clock, waitUntil, deadline, ea, lastGet, flow,
                   wvars>>

Listener(s) ==
    \/ Bind(s)
    \/ RecordInstance(s)
    \/ RecordPort(s)
    \/ SetReady(s)
    \/ ServeEnter(s)
    \/ ServeAccept(s)
    \/ DoGET(s)
    \/ ServeExit(s)

\* ------------------------------------------------ ensure_authenticated
MainU == <<exitCode, AUTH_SUCCESS, SERVER_READY, CANCEL_EVENT, SERVER_STATE, extBusy,
          clock, lastGet, flow, wvars>>

\* variant for C5: the call does not look at the stored token
CallEnsureAuthenticated_NoCache ==
    /\ pc = "m_call"
    /\ call' = call + 1
    /\ ea' = [FreshLocals EXCEPT !.entryToken = tokenStore,
                                 !.cancelAtEntry = CANCEL_EVENT]
    /\ pc' = "ea_spawn"
    /\ UNCHANGED <<MainU, tokenStore, lst, waitUntil, deadline>>

\* token = ensure_authenticated(): token_back = get_stored_token();
\* if token_back: return token_back
CallEnsureAuthenticated ==
    /\ pc = "m_call"
    /\ call' = call + 1
    /\ IF tokenStore # None /\ tokenStore # ""
       THEN /\ ea' = [FreshLocals EXCEPT !.entryToken = tokenStore,
                                         !.cancelAtEntry = CANCEL_EVENT,
                                         !.ret = tokenStore, !.retLine = 109,
                                         !.cancelAtReturn = CANCEL_EVENT]
            /\ pc' = "m_chk_cancel"
       ELSE /\ ea' = [FreshLocals EXCEPT !.entryToken = tokenStore,
                                         !.cancelAtEntry = CANCEL_EVENT]
            /\ pc' = "ea_spawn"
    /\ UNCHANGED <<MainU, tokenStore, lst, waitUntil, deadline>>

\* server_thread = threading.Thread(target=start_local_server, ...);
\* server_thread.start(); SERVER_READY.wait(timeout=5) begins
SpawnServerThread ==
    /\ pc = "ea_spawn"
    /\ SetL(call, [lst[call] EXCEPT !.pc = "bind"])
    /\ waitUntil' = clock + ReadyTicks
    /\ pc' = "ea_wait_ready"
    /\ UNCHANGED <<MainU, call, tokenStore, deadline, ea>>

\* SERVER_READY.wait(timeout=5) returns True
ReadyWaitDone ==
    /\ pc = "ea_wait_ready"
    /\ SERVER_READY
    /\ ea' = [ea EXCEPT !.obsReady = IF lst[call].readySet THEN "own" ELSE "stale"]
    /\ pc' = "ea_url"
    /\ waitUntil' = 0
    /\ UNCHANGED <<MainU, call, tokenStore, lst, deadline>>

\* SERVER_READY.wait(timeout=5) returns False
ReadyWaitExpired ==
    /\ pc = "ea_wait_ready"
    /\ ~SERVER_READY
    /\ clock >= waitUntil
    /\ pc' = "rf_check"
    /\ waitUntil' = 0
    /\ UNCHANGED <<MainU, call, tokenStore, lst, deadline, ea>>

\* if SERVER_STATE["instance"] is not None:  (line 120 and line 163)
InstanceCheck(at, shut, join) ==
    /\ pc = at
    /\ IF SERVER_STATE.instance # NoInstance
       THEN pc' = shut /\ UNCHANGED waitUntil
       ELSE pc' = join /\ waitUntil' = clock + JoinTicks
    /\ UNCHANGED <<MainU, call, tokenStore, lst, deadline, ea>>

\* where a listener thread is between SERVER_STATE["instance"] = httpd and
\* the first pass of the loop of serve_forever
BeforeServe == {"rec_port", "set_ready", "serve_enter"}

\* SERVER_STATE["instance"].shutdown(): __shutdown_request = True
ShutdownCall(at, wait) ==
    /\ pc = at
    /\ LET inst == SERVER_STATE.instance
       IN  /\ SetL(inst, [lst[inst] EXCEPT !.shutdown_request = TRUE])
           /\ ea' = [ea EXCEPT !.target = inst, !.targets = @ \cup {inst},
                               !.early = lst[inst].pc \in BeforeServe]
    /\ pc' = wait
    /\ UNCHANGED <<MainU, call, tokenStore, waitUntil, deadline>>

\* shutdown(): __is_shut_down.wait() returns
ShutdownReturn(at, next) ==
    /\ pc = at
    /\ lst[ea.target].is_shut_down
    /\ pc' = next
    /\ waitUntil' = clock + JoinTicks
    /\ UNCHANGED <<MainU, call, tokenStore, lst, deadline, ea>>

\* server_thread.join(timeout=2) returns: the thread has ended, or the
\* timeout has passed
JoinReturns(at) ==
    /\ pc = at
    /\ lst[call].pc = "done" \/ clock >= waitUntil

ReadyFailCheck == InstanceCheck("rf_check", "rf_shutdown", "rf_join")
ReadyFailShutdown == ShutdownCall("rf_shutdown", "rf_shutwait")
ReadyFailShutdownReturn == ShutdownReturn("rf_shutwait", "rf_join")

\* server_thread.join(timeout=2); print(...); return None   (lines 125-127)
ReadyFailReturn ==
    /\ JoinReturns("rf_join")
    /\ ea' = [ea EXCEPT !.ret = None, !.retLine = 127, !.cancelAtReturn = CANCEL_EVENT]
    /\ pc' = "m_chk_cancel"
    /\ waitUntil' = 0
    /\ UNCHANGED <<MainU, call, tokenStore, lst, deadline>>

\* redirect_url = f"http://127.0.0.1:{SERVER_STATE['port']}/callback"; print
BuildAuthUrl ==
    /\ pc = "ea_url"
    /\ ea' = [ea EXCEPT !.urlPort = SERVER_STATE.port]
    /\ pc' = "ea_browser"
    /\ UNCHANGED <<MainU, call, tokenStore, lst, waitUntil, deadline>>

\* opened = webbrowser.open(auth_url); if not opened: print("Browser did not
\* open automatically. ..."): the result is printed and looked at nowhere else
OpenBrowser ==
    /\ pc = "ea_browser"
    /\ \E opened \in BOOLEAN : ea' = [ea EXCEPT !.browser = TRUE]
    /\ pc' = "ea_deadline"
    /\ UNCHANGED <<MainU, call, tokenStore, lst, waitUntil, deadline>>

\* deadline = systime.monotonic() + 30; success = False
SetDeadline ==
    /\ pc = "ea_deadline"
    /\ deadline' = clock + DeadlineTicks
    /\ ea' = [ea EXCEPT !.success = FALSE, !.enteredWait = TRUE]
    /\ pc' = "loop_success"
    /\ UNCHANGED <<MainU, call, tokenStore, lst, waitUntil>>

\* if AUTH_SUCCESS.is_set(): success = True; break
LoopCheckSuccess ==
    /\ pc = "loop_success"
    /\ IF AUTH_SUCCESS
       THEN /\ ea' = [ea EXCEPT !.success = TRUE,
                        !.obsSuccess = IF lst[call].ntok > 0 THEN "own" ELSE "stale"]
            /\ pc' = "fin_check"
       ELSE /\ pc' = "loop_cancel"
            /\ UNCHANGED ea
    /\ UNCHANGED <<MainU, call, tokenStore, lst, waitUntil, deadline>>

\* if CANCEL_EVENT.is_set(): raise KeyboardInterrupt
LoopCheckCancel ==
    /\ pc = "loop_cancel"
    /\ IF CANCEL_EVENT
       THEN /\ ea' = [ea EXCEPT !.exc = TRUE]
            /\ pc' = "fin_check"
       ELSE /\ pc' = "loop_remaining"
            /\ UNCHANGED ea
    /\ UNCHANGED <<MainU, call, tokenStore, lst, waitUntil, deadline>>

\* remaining = deadline - systime.monotonic(); if remaining <= 0: success =
\* False; break; else AUTH_SUCCESS.wait(timeout=min(0.25, remaining)) begins
LoopCheckRemaining ==
    /\ pc = "loop_remaining"
    /\ LET remaining == deadline - clock
       IN  IF remaining <= 0
           THEN /\ ea' = [ea EXCEPT !.success = FALSE]
                /\ pc' = "fin_check"
                /\ UNCHANGED waitUntil
           ELSE /\ ea' = [ea EXCEPT !.polls = @ + 1]
                /\ waitUntil' = clock + Min(PollTicks, remaining)
                /\ pc' = "loop_wait"
    /\ UNCHANGED <<MainU, call, tokenStore, lst, deadline>>

\* AUTH_SUCCESS.wait(timeout=...) returns: the event is set, or the timeout
\* has passed
LoopWaitReturn ==
    /\ pc = "loop_wait"
    /\ AUTH_SUCCESS \/ clock >= waitUntil
    /\ pc' = "loop_success"
    /\ waitUntil' = 0
    /\ UNCHANGED <<MainU, call, tokenStore, lst, deadline, ea>>

\* finally:  (lines 161-168)
FinallyCheck == InstanceCheck("fin_check", "fin_shutdown", "fin_join")
FinallyShutdown == ShutdownCall("fin_shutdown", "fin_shutwait")
FinallyShutdownReturn == ShutdownReturn("fin_shutwait", "fin_join")

\* server_thread.join(timeout=2), then the KeyboardInterrupt goes on to the
\* caller or the function goes on to line 170
FinallyJoin ==
    /\ JoinReturns("fin_join")
    /\ pc' = IF ea.exc THEN "ki_check" ELSE "ea_return"
    /\ ea' = [ea EXCEPT !.cancelAtReturn = ea.exc /\ CANCEL_EVENT]
    /\ waitUntil' = 0
    /\ UNCHANGED <<MainU, call, tokenStore, lst, deadline>>

\* if not success: return None;  return get_stored_token()
ReturnAfterWait ==
    /\ pc = "ea_return"
    /\ ea' = IF ~ea.success
             THEN [ea EXCEPT !.ret = None, !.retLine = 172,
                             !.cancelAtReturn = CANCEL_EVENT]
             ELSE [ea EXCEPT !.ret = tokenStore, !.retLine = 174,
                             !.cancelAtReturn = CANCEL_EVENT]
    /\ pc' = "m_chk_cancel"
    /\ UNCHANGED <<MainU, call, tokenStore, lst, waitUntil, deadline>>

\* ------------------------------------------------ the module-level flow
\* sys.exit(code): the daemon listener threads end with the process
Exit(code) ==
    /\ pc' = "exited"
    /\ exitCode' = code
\* the same, with the reason the run ends for
ExitAs(code, reason) ==
    /\ Exit(code)
    /\ flow' = [flow EXCEPT !.end = reason]

FlowU == <<AUTH_SUCCESS, SERVER_READY, CANCEL_EVENT, SERVER_STATE, extBusy, clock,
           call, lst, waitUntil, deadline, ea, lastGet, wvars>>
FlowV == <<AUTH_SUCCESS, SERVER_READY, CANCEL_EVENT, SERVER_STATE, extBusy, clock,
           call, waitUntil, lastGet, wvars>>

\* the locals of ensure_authenticated are gone once the caller goes on; what
\* is left of the call is its result, the caller's `token` (and, for the
\* record, whether CANCEL_EVENT was set when it handed back).  The request
\* counts of a listener thread that has ended go with them: its server
\* object, socket and port stay.
Forget ==
    /\ ea' = [FreshLocals EXCEPT !.ret = ea.ret, !.cancelAtReturn = ea.cancelAtReturn]
    /\ deadline' = 0
    /\ lst' = [s \in Sessions |->
                 IF lst[s].pc = "done"
                 THEN [lst[s] EXCEPT !.nreq = 0, !.ntok = 0, !.raised = 0, !.intime = FALSE]
                 ELSE lst[s]]

\* the command line: if len(sys.argv) != 3: ... sys.exit(1); then, inside the
\* try, signal.signal(SIGINT, _sigint_handler) and the two
\* datetime.strptime(sys.argv[i], "%Y-%m-%d"), whose ValueError is answered by
\* print("Dates must be in YYYY-MM-DD format"); sys.exit(1)
CommandLines == {"ok", "wrong_count", "bad_date"}
ParseArgs ==
    /\ pc = "m_args"
    /\ \E argv \in CommandLines :
          IF argv = "ok"
          THEN pc' = "m_call" /\ UNCHANGED <<exitCode, flow>>
          ELSE ExitAs(1, "input")
    /\ UNCHANGED <<FlowU, tokenStore>>

\* if CANCEL_EVENT.is_set(): print(...); sys.exit(1)   (lines 596 and 611)
\* (variant: a call that came back with a token goes on whatever the flag says)
MainCheckCancel_TokenWins ==
    /\ pc = "m_chk_cancel"
    /\ IF CANCEL_EVENT /\ (ea.ret = None \/ ea.ret = "")
       THEN ExitAs(1, "cancelled")
       ELSE pc' = "m_chk_token" /\ UNCHANGED <<exitCode, flow>>
    /\ Forget
    /\ UNCHANGED <<FlowV, tokenStore>>

MainCheckCancel ==
    /\ pc = "m_chk_cancel"
    /\ IF CANCEL_EVENT
       THEN ExitAs(1, "cancelled")
       ELSE pc' = "m_chk_token" /\ UNCHANGED <<exitCode, flow>>
    /\ Forget
    /\ UNCHANGED <<FlowV, tokenStore>>

\* if not token: print(...); sys.exit(1)   (lines 599 and 614)
MainCheckToken ==
    /\ pc = "m_chk_token"
    /\ IF ea.ret = None \/ ea.ret = ""
       THEN ExitAs(1, "no_token")
       ELSE pc' = "m_validate" /\ UNCHANGED <<exitCode, flow>>
    /\ UNCHANGED <<FlowU, tokenStore>>

\* what urlopen(req, timeout=5) does in validate_token: it returns a response
\* with status 200 or another 2xx status, raises HTTPError for a status that
\* is not 2xx, raises URLError when the connection fails or times out while
\* connecting or sending, and raises socket.timeout, which is no URLError,
\* when the time runs out while the response is read
HealthOutcomes == {"200", "2xx", "http_error", "url_error", "read_timeout"}

\* what the health endpoint does with the request: it answers with a status
\* (the last one, after the redirects urllib follows), or the connection
\* fails, or the time runs out while the response is read
AnswerKinds == {"status", "url_error", "read_timeout"}
Statuses == FirstStatus..LastStatus
Answers == [kind : AnswerKinds, status : Statuses]

\* urlopen: HTTPErrorProcessor hands back a response whose status is 2xx and
\* raises HTTPError for every other one
HealthOutcome(answer) ==
    IF answer.kind # "status" THEN answer.kind
    ELSE IF answer.status = 200 THEN "200"
    ELSE IF answer.status >= 200 /\ answer.status < 300 THEN "2xx"
    ELSE "http_error"

\* (variant: every response urlopen hands back counts as valid)
validate_token_Any2xx(outcome) ==
    CASE outcome \in {"200", "2xx"} -> "True"
      [] outcome \in {"http_error", "url_error"} -> "False"
      [] outcome = "read_timeout" -> "raise"

\* return resp.status == 200 / except (URLError, HTTPError): return False
validate_token(outcome) ==
    CASE outcome = "200" -> "True"
      [] outcome \in {"2xx", "http_error", "url_error"} -> "False"
      [] outcome = "read_timeout" -> "raise"

\* no call of validate_token is under way
HealthIdle == health = [pc |-> "returned", kind |-> "status", status |-> 200, ret |-> "none"]

\* a call of validate_token against an endpoint that gives any answer
HealthInit ==
    \E answer \in Answers :
        health = [pc |-> "call", kind |-> answer.kind, status |-> answer.status,
                  ret |-> "none"]

ValidateCall ==
    /\ health.pc = "call"
    /\ health' = [health EXCEPT !.pc = "returned",
                                !.ret = validate_token(HealthOutcome(health))]
    /\ UNCHANGED <<pc, call, exitCode, tokenStore, AUTH_SUCCESS, SERVER_READY,
                   CANCEL_EVENT, SERVER_STATE, lst, extBusy, clock, waitUntil, deadline,
                   ea, lastGet, flow, up, jvars>>

\* if not validate_token(token):   (lines 603 and 617); the answer of the
\* health endpoint is the backend's.  An exception that validate_token lets
\* through is caught by nothing at module level: the interpreter prints the
\* traceback and ends with status 1.
\* (variant: a second invalid token is let through to the export)
ValidateToken_NoFatal ==
    /\ pc = "m_validate"
    /\ \E outcome \in HealthOutcomes :
          LET r == validate_token(outcome) IN
          /\ flow' = [flow EXCEPT !.nvalid = @ + 1,
                                  !.ninvalid = IF r = "False" THEN @ + 1 ELSE @,
                                  !.raised = (r = "raise"),
                                  !.validated = IF r = "True" THEN ea.ret ELSE @,
                                  !.end = IF r = "raise" THEN "crashed" ELSE @]
          /\ IF r = "True" THEN pc' = "m_export" /\ UNCHANGED exitCode
             ELSE IF r = "raise" THEN Exit(1)
             ELSE IF call = 1 THEN pc' = "m_clear" /\ UNCHANGED exitCode
             ELSE pc' = "m_export" /\ UNCHANGED exitCode
    /\ UNCHANGED <<FlowU, tokenStore>>

ValidateToken ==
    /\ pc = "m_validate"
    /\ \E outcome \in HealthOutcomes :
          LET r == validate_token(outcome) IN
          /\ flow' = [flow EXCEPT !.nvalid = @ + 1,
                                  !.ninvalid = IF r = "False" THEN @ + 1 ELSE @,
                                  !.raised = (r = "raise"),
                                  !.validated = IF r = "True" THEN ea.ret ELSE @,
                                  !.end = IF r = "raise" THEN "crashed"
                                          ELSE IF r = "False" /\ call # 1 THEN "invalid"
                                          ELSE @]
          /\ IF r = "True" THEN pc' = "m_export" /\ UNCHANGED exitCode
             ELSE IF r = "raise" THEN Exit(1)
             ELSE IF call = 1 THEN pc' = "m_clear" /\ UNCHANGED exitCode
             ELSE Exit(1)
    /\ UNCHANGED <<FlowU, tokenStore>>

\* try: clear_stored_token() except KeyringError: pass; then the second
\* token = ensure_authenticated() follows
ClearStoredToken ==
    /\ pc = "m_clear"
    /\ \E deleted \in BOOLEAN :
          /\ tokenStore' = IF deleted THEN None ELSE tokenStore
          /\ flow' = [flow EXCEPT !.cleared = IF deleted THEN "deleted" ELSE "failed"]
    /\ pc' = "m_call"
    /\ UNCHANGED <<FlowU, exitCode>>

\* summaries = parse_apple_health(...); export_excel(..., token); the module ends
\* (variant: the POSTs carry the token the keyring holds by then)
Export_StoredToken ==
    /\ pc = "m_export"
    /\ Exit(0)
    /\ flow' = [flow EXCEPT !.end = "ok", !.posted = tokenStore]
    /\ UNCHANGED <<FlowU, tokenStore>>

\* `token` is not empty here, so `if jwt_token:` holds and every _post_json
\* of export_excel carries it
Export ==
    /\ pc = "m_export"
    /\ Exit(0)
    /\ flow' = [flow EXCEPT !.end = "ok", !.posted = ea.ret]
    /\ UNCHANGED <<FlowU, tokenStore>>

\* except KeyboardInterrupt: if SERVER_STATE["instance"] is not None:
KeyboardInterruptCheck ==
    /\ pc = "ki_check"
    /\ pc' = IF SERVER_STATE.instance # NoInstance THEN "ki_shutdown" ELSE "ki_exit"
    /\ Forget
    /\ UNCHANGED <<MainU, call, tokenStore, waitUntil>>

KeyboardInterruptShutdown == ShutdownCall("ki_shutdown", "ki_shutwait")
KeyboardInterruptShutdownReturn == ShutdownReturn("ki_shutwait", "ki_exit")

\* print("\nOperation cancelled by user."); sys.exit(1)
KeyboardInterruptExit ==
    /\ pc = "ki_exit"
    /\ ExitAs(1, "cancelled")
    /\ UNCHANGED <<FlowU, tokenStore>>

\* _sigint_handler: CANCEL_EVENT.set()
Sigint ==
    /\ Running
    /\ pc # "m_args"
    /\ ~CANCEL_EVENT
    /\ CANCEL_EVENT' = TRUE
    /\ UNCHANGED <<pc, call, exitCode, tokenStore, AUTH_SUCCESS, SERVER_READY,
                   SERVER_STATE, lst, extBusy, clock, waitUntil, deadline, ea, lastGet, flow,
                   wvars>>

\* the calls the main thread blocks in
Blocked ==
    pc \in {"ea_wait_ready", "loop_wait", "rf_shutwait", "rf_join", "fin_shutwait",
            "fin_join", "ki_shutwait"}

\* time passes while the main thread is blocked in a call (its other steps
\* take no time on the scale of the waits)
Tick ==
    /\ Blocked
    /\ clock < MaxClock
    /\ clock' = clock + 1
    /\ UNCHANGED <<pc, call, exitCode, tokenStore, AUTH_SUCCESS, SERVER_READY,
                   CANCEL_EVENT, SERVER_STATE, lst, extBusy, waitUntil, deadline, ea, lastGet, flow,
                   wvars>>

\* the time a blocked call with a timeout waits for passes, up to the moment
\* the timeout expires (time that passes elsewhere only makes a timeout
\* expire sooner)
TickWait ==
    /\ Blocked
    /\ clock < waitUntil
    /\ clock' = clock + 1
    /\ UNCHANGED <<pc, call, exitCode, tokenStore, AUTH_SUCCESS, SERVER_READY,
                   CANCEL_EVENT, SERVER_STATE, lst, extBusy, waitUntil, deadline, ea, lastGet, flow,
                   wvars>>

\* the steps a listener thread takes by itself once it is started: all but
\* the arrival of a request
Scheduled(s) ==
    \/ Bind(s)
    \/ RecordInstance(s)
    \/ RecordPort(s)
    \/ SetReady(s)
    \/ ServeEnter(s)
    \/ DoGET(s)
    \/ ServeExit(s)

\* ------------------------------------------------- the chunked uploader
\* items[start:end]
Slice(items, start, end) == SubSeq(items, start + 1, end)

\* for start in range(0, total, chunk_size): ... with the POSTs issued so far
\* in `posts`; the k-th POST of the call fails when k is in `fails`
\* (variant: a failed chunk is remembered and the loop goes on)
RECURSIVE ForEachChunk_KeepGoing(_, _, _, _, _, _)
ForEachChunk_KeepGoing(items, chunk_size, start, fails, posts, good) ==
    IF start >= Len(items)
    THEN [ret |-> IF good THEN "True" ELSE "False", posts |-> posts]
    ELSE LET end == Min(start + chunk_size, Len(items))
             issued == Append(posts, Slice(items, start, end))
         IN  ForEachChunk_KeepGoing(items, chunk_size, start + chunk_size, fails,
                                    issued, good /\ Len(issued) \notin fails)

\* (variant: the next chunk starts one item too far)
RECURSIVE ForEachChunk_Skip(_, _, _, _, _)
ForEachChunk_Skip(items, chunk_size, start, fails, posts) ==
    IF start >= Len(items)
    THEN [ret |-> "True", posts |-> posts]
    ELSE LET end == Min(start + chunk_size, Len(items))
             issued == Append(posts, Slice(items, start, end))
         IN  IF Len(issued) \in fails
             THEN [ret |-> "False", posts |-> issued]
             ELSE ForEachChunk_Skip(items, chunk_size, end + 1, fails, issued)

RECURSIVE ForEachChunk(_, _, _, _, _)
ForEachChunk(items, chunk_size, start, fails, posts) ==
    IF start >= Len(items)
    THEN [ret |-> "True", posts |-> posts]
    ELSE LET end == Min(start + chunk_size, Len(items))
             chunk == Slice(items, start, end)
             issued == Append(posts, chunk)
             ok == Len(issued) \notin fails
         IN  IF ~ok
             THEN [ret |-> "False", posts |-> issued]
             ELSE ForEachChunk(items, chunk_size, start + chunk_size, fails, issued)

\* _post_in_batches(url, items, jwt_token, chunk_size): `ret` is what the call
\* returns or raises.  range(0, total, 0) raises ValueError and
\* range(0, total, chunk_size) is empty for a negative chunk_size.
post_in_batches_KeepGoing(items, chunk_size, fails) ==
    IF items = <<>> THEN [ret |-> "True", posts |-> <<>>]
    ELSE IF chunk_size = 0 THEN [ret |-> "ValueError", posts |-> <<>>]
    ELSE IF chunk_size < 0 THEN [ret |-> "True", posts |-> <<>>]
    ELSE ForEachChunk_KeepGoing(items, chunk_size, 0, fails, <<>>, TRUE)

post_in_batches_Skip(items, chunk_size, fails) ==
    IF items = <<>> THEN [ret |-> "True", posts |-> <<>>]
    ELSE IF chunk_size = 0 THEN [ret |-> "ValueError", posts |-> <<>>]
    ELSE IF chunk_size < 0 THEN [ret |-> "True", posts |-> <<>>]
    ELSE ForEachChunk_Skip(items, chunk_size, 0, fails, <<>>)

\* (variant: an empty list is sent as one empty chunk)
post_in_batches_EmptyChunk(items, chunk_size, fails) ==
    IF items = <<>>
    THEN [ret |-> IF 1 \in fails THEN "False" ELSE "True", posts |-> << <<>> >>]
    ELSE IF chunk_size = 0 THEN [ret |-> "ValueError", posts |-> <<>>]
    ELSE IF chunk_size < 0 THEN [ret |-> "True", posts |-> <<>>]
    ELSE ForEachChunk(items, chunk_size, 0, fails, <<>>)

post_in_batches(items, chunk_size, fails) ==
    IF items = <<>> THEN [ret |-> "True", posts |-> <<>>]
    ELSE IF chunk_size = 0 THEN [ret |-> "ValueError", posts |-> <<>>]
    ELSE IF chunk_size < 0 THEN [ret |-> "True", posts |-> <<>>]
    ELSE ForEachChunk(items, chunk_size, 0, fails, <<>>)

\* the item lists: the items of a list are told apart by their position
ItemLists == {[i \in 1..n |-> i] : n \in 0..MaxItems}
ChunkSizes == MinChunk..MaxChunk

\* no call of the uploader is under way
UploadIdle ==
    up = [pc |-> "returned", items |-> <<>>, chunk_size |-> 1, fails |-> {},
          ret |-> "none", posts |-> <<>>]

\* a call of the uploader with any item list, chunk size and POST outcomes
UploadInit ==
    \E items \in ItemLists, chunk_size \in ChunkSizes, fails \in SUBSET (1..MaxItems) :
        up = [pc |-> "call", items |-> items, chunk_size |-> chunk_size,
              fails |-> fails, ret |-> "none", posts |-> <<>>]

PostInBatches ==
    /\ up.pc = "call"
    /\ LET r == post_in_batches(up.items, up.chunk_size, up.fails)
       IN  up' = [up EXCEPT !.pc = "returned", !.ret = r.ret, !.posts = r.posts]
    /\ UNCHANGED <<avars, jvars>>

\* ------------------------------------------------------------ the watcher
\* what a descriptor file holds: a well-formed job, text that is no JSON, an
\* object without xml_path or token, or JSON of the wrong type (not an
\* object, or an xml_path that is no string); "gone" once it is deleted
DescKinds == {"ok", "badjson", "missingkey", "wrongtype"}
\* the export file at the path the descriptor names: well-formed, not
\* parseable, or absent; "archived" once it is moved to PROCESSED_DIR
XmlKinds == {"valid", "invalid", "missing"}
\* an export file at its source path: XML that processes, text that is no
\* XML, or XML with a Record of an aggregated type that has no startDate
\* (startdate.replace raises AttributeError in _aggregate_daily)
AtSource == {"valid", "invalid", "unaggregable"}
\* user_id = job.get("user_id", "unknown")
Users == {"u1", "unknown"}

\* `log` holds the POSTs the running process_xml call has issued
FreshThread ==
    [pc |-> "idle", job |-> 0, success |-> FALSE, failed |-> FALSE, exc |-> FALSE,
     ret |-> "none", log |-> <<>>]

\* what an export that parses holds: the days _aggregate_daily finds and the
\* ActivitySummary elements
Exports == [days : DayCounts, acts : ActCounts]
SmallExport == [days |-> 1, acts |-> 1]
\* the summaries built from n days, or n ActivitySummary elements, told apart
\* by their position
ItemsOf(n) == [i \in 1..n |-> i]
\* the POSTs a chunked upload of n items can issue
ChunksOf(n) == (n + DefaultChunk - 1) \div DefaultChunk
\* the POSTs of one chunked upload as they go into the log: endpoint, chunk,
\* whether the payload has the key exportDate, and whether the POST succeeded
Logged(endpoint, chunks, dated, fails) ==
    [i \in 1..Len(chunks) |-> [ep |-> endpoint, items |-> chunks[i], date |-> dated,
                             ok |-> i \notin fails]]

\* no descriptor has been notified yet
WatcherIdle ==
    /\ desc = [j \in Jobs |-> "ok"]
    /\ xml = [j \in Jobs |-> "valid"]
    /\ processing = {}
    /\ th = [t \in Threads |-> FreshThread]
    /\ notifs = [j \in Jobs |-> 0]
    /\ attempts = [j \in Jobs |-> 0]
    /\ export = [j \in Jobs |-> SmallExport]
    /\ owner = [j \in Jobs |-> "u1"]
    /\ archive = {}
    /\ wnow = 0

\* HealthFileHandler.__init__: self.processing = set(); the queue holds any
\* descriptors and exports
WatcherInit ==
    /\ desc \in [Jobs -> DescKinds]
    /\ xml \in [Jobs -> XmlKinds]
    /\ processing = {}
    /\ th = [t \in Threads |-> FreshThread]
    /\ notifs = [j \in Jobs |-> 0]
    /\ attempts = [j \in Jobs |-> 0]
    /\ export = [j \in Jobs |-> SmallExport]
    /\ owner \in [Jobs -> Users]
    /\ archive = {}
    /\ wnow = 0

SetT(t, r) == th' = [th EXCEPT ![t] = r]

\* on_created(event) for the descriptor of job j, delivered on thread t: not a
\* directory, suffix .json, stem ends with _job; time.sleep(0.5); then
\* self._process_job(file_path) is called on the same thread
OnCreated(t, j) ==
    /\ th[t].pc = "idle"
    /\ notifs[j] < MaxNotifs
    /\ notifs' = [notifs EXCEPT ![j] = @ + 1]
    /\ SetT(t, [FreshThread EXCEPT !.pc = "check", !.job = j])
    /\ UNCHANGED <<avars, up, export, owner, archive, wnow, desc, xml, processing, attempts>>

\* if str(job_file) in self.processing: return
\* (variant: the early return leaves through the finally clause)
CheckInFlight_Discard(t) ==
    /\ th[t].pc = "check"
    /\ IF th[t].job \in processing
       THEN /\ SetT(t, [FreshThread EXCEPT !.ret = "in_flight"])
            /\ processing' = processing \ {th[t].job}
       ELSE /\ SetT(t, [th[t] EXCEPT !.pc = "add"])
            /\ UNCHANGED processing
    /\ UNCHANGED <<avars, up, export, owner, archive, wnow, desc, xml, notifs, attempts>>

CheckInFlight(t) ==
    /\ th[t].pc = "check"
    /\ IF th[t].job \in processing
       THEN SetT(t, [FreshThread EXCEPT !.ret = "in_flight"])
       ELSE SetT(t, [th[t] EXCEPT !.pc = "add"])
    /\ UNCHANGED <<avars, up, export, owner, archive, wnow, desc, xml, processing, notifs, attempts>>

\* self.processing.add(str(job_file))
AddInFlight(t) ==
    /\ th[t].pc = "add"
    /\ processing' = processing \cup {th[t].job}
    /\ SetT(t, [th[t] EXCEPT !.pc = "read"])
    /\ UNCHANGED <<avars, up, export, owner, archive, wnow, desc, xml, notifs, attempts>>

\* with open(job_file) as f: job = json.load(f); xml_path = Path(job["xml_path"]);
\* token = job["token"]; user_id = job.get("user_id", "unknown").
\* FileNotFoundError, JSONDecodeError and KeyError are caught; the TypeError
\* or AttributeError of a descriptor of the wrong type is not.
ReadDescriptor(t) ==
    /\ th[t].pc = "read"
    /\ LET d == desc[th[t].job] IN
       IF d = "ok" THEN SetT(t, [th[t] EXCEPT !.pc = "exists"])
       ELSE IF d = "wrongtype"
       THEN SetT(t, [th[t] EXCEPT !.pc = "finally", !.failed = TRUE, !.exc = TRUE])
       ELSE SetT(t, [th[t] EXCEPT !.pc = "finally", !.failed = TRUE])
    /\ UNCHANGED <<avars, up, export, owner, archive, wnow, desc, xml, processing, notifs, attempts>>

\* if not xml_path.exists(): print(...); return
\* success = self.processor.process_xml(xml_path, token)
\* (variant: the return for a missing export skips the finally clause)
CheckExport_NoDiscard(t) ==
    /\ th[t].pc = "exists"
    /\ IF xml[th[t].job] \in AtSource
       THEN /\ SetT(t, [th[t] EXCEPT !.pc = "parse"])
            /\ attempts' = [attempts EXCEPT ![th[t].job] = @ + 1]
       ELSE /\ SetT(t, [FreshThread EXCEPT !.ret = "done"])
            /\ UNCHANGED attempts
    /\ UNCHANGED <<avars, up, export, owner, archive, wnow, desc, xml, processing, notifs>>

\* (variant: process_xml is called without looking for the export)
CheckExport_NoExistsCheck(t) ==
    /\ th[t].pc = "exists"
    /\ SetT(t, [th[t] EXCEPT !.pc = "parse"])
    /\ attempts' = [attempts EXCEPT ![th[t].job] = @ + 1]
    /\ UNCHANGED <<avars, up, export, owner, archive, wnow, desc, xml, processing, notifs>>

CheckExport(t) ==
    /\ th[t].pc = "exists"
    /\ IF xml[th[t].job] \in AtSource
       THEN /\ SetT(t, [th[t] EXCEPT !.pc = "parse"])
            /\ attempts' = [attempts EXCEPT ![th[t].job] = @ + 1]
       ELSE /\ SetT(t, [th[t] EXCEPT !.pc = "finally", !.failed = TRUE])
            /\ UNCHANGED attempts
    /\ UNCHANGED <<avars, up, export, owner, archive, wnow, desc, xml, processing, notifs>>
\* process_xml: tree = ET.parse(xml_path) ... daily_data =
\* self._aggregate_daily(root).  ET.ParseError, the AttributeError of a Record
\* without startDate, and the OSError of an export that is gone by now, make
\* process_xml return False.
ParseExport(t) ==
    /\ th[t].pc = "parse"
    /\ IF xml[th[t].job] = "valid"
       THEN SetT(t, [th[t] EXCEPT !.pc = "post_user"])
       ELSE SetT(t, [th[t] EXCEPT !.pc = "finally", !.failed = TRUE])
    /\ UNCHANGED <<avars, up, export, owner, archive, wnow, desc, xml, processing, notifs, attempts>>

\* self._post_json("/api/apple-health/user-infos", {...}, token): the value
\* returned is not looked at
PostUserInfo(t) ==
    /\ th[t].pc = "post_user"
    /\ \E ok \in BOOLEAN :
          SetT(t, [th[t] EXCEPT !.pc = "post_daily", !.failed = @ \/ ~ok,
                                !.log = Append(@, [ep |-> "user-infos", items |-> <<>>,
                                                   date |-> TRUE, ok |-> ok])])
    /\ UNCHANGED <<avars, up, export, owner, archive, wnow, desc, xml, processing, notifs, attempts>>

\* self._post_in_batches("/api/apple-health/daily-summaries", daily_summaries,
\* token, chunk_size=100): the value returned is not looked at
\* summaries = self._build_summaries(daily_data, export_date): one per day
PostDailySummaries(t) ==
    /\ th[t].pc = "post_daily"
    /\ LET n == export[th[t].job].days IN
       \E fails \in SUBSET (1..ChunksOf(n)) :
          LET r == post_in_batches(ItemsOf(n), DefaultChunk, fails) IN
          SetT(t, [th[t] EXCEPT !.pc = "post_activity",
                                !.failed = @ \/ r.ret # "True",
                                !.log = @ \o Logged("daily-summaries", r.posts, FALSE, fails)])
    /\ UNCHANGED <<avars, up, export, owner, archive, wnow, desc, xml, processing, notifs, attempts>>

\* if activity_summaries: self._post_in_batches(".../activity-summaries", ...):
\* the value returned is not looked at; return True; then in _process_job
\* `if success:` holds
\* export_date is never empty (_get_export_date falls back to today), so
\* `if export_date: payload["exportDate"] = export_date` holds for every chunk
\* (variant: the payload is built without exportDate)
PostActivitySummaries_NoDate(t) ==
    /\ th[t].pc = "post_activity"
    /\ LET n == export[th[t].job].acts IN
       \E fails \in SUBSET (1..ChunksOf(n)) :
          LET r == post_in_batches(ItemsOf(n), DefaultChunk, fails) IN
          SetT(t, [th[t] EXCEPT !.pc = "move", !.success = TRUE,
                                !.failed = @ \/ r.ret # "True",
                                !.log = @ \o Logged("activity-summaries", r.posts, FALSE,
                                                    fails)])
    /\ UNCHANGED <<avars, up, export, owner, archive, wnow, desc, xml, processing, notifs, attempts>>

PostActivitySummaries(t) ==
    /\ th[t].pc = "post_activity"
    /\ LET n == export[th[t].job].acts IN
       \E fails \in SUBSET (1..ChunksOf(n)) :
          LET r == post_in_batches(ItemsOf(n), DefaultChunk, fails) IN
          SetT(t, [th[t] EXCEPT !.pc = "move", !.success = TRUE,
                                !.failed = @ \/ r.ret # "True",
                                !.log = @ \o Logged("activity-summaries", r.posts, TRUE, fails)])
    /\ UNCHANGED <<avars, up, export, owner, archive, wnow, desc, xml, processing, notifs, attempts>>

\* the file [user, stamp, job] is PROCESSED_DIR / user / f"{stamp}_export.xml"
\* holding the export of `job`; a file moved onto an existing path replaces it
MoveInto(files, user, stamp, job) ==
    {f \in files : ~(f.user = user /\ f.stamp = stamp)}
        \cup {[user |-> user, stamp |-> stamp, job |-> job]}

\* user_processed_dir = PROCESSED_DIR / user_id;
\* timestamp = datetime.now().strftime("%Y%m%d_%H%M%S");
\* shutil.move(str(xml_path), str(processed_path)); the FileNotFoundError of
\* an export that is gone by now is caught
\* (variant: the export is copied, not moved)
MoveExport_Copy(t) ==
    /\ th[t].pc = "move"
    /\ \E stamp \in wnow..MaxStamp :
          /\ wnow' = stamp
          /\ IF xml[th[t].job] = "valid"
             THEN /\ archive' = MoveInto(archive, owner[th[t].job], stamp, th[t].job)
                  /\ UNCHANGED xml
                  /\ SetT(t, [th[t] EXCEPT !.pc = "unlink"])
             ELSE /\ UNCHANGED <<xml, archive>>
                  /\ SetT(t, [th[t] EXCEPT !.pc = "finally", !.failed = TRUE])
    /\ UNCHANGED <<avars, up, export, owner, desc, processing, notifs, attempts>>

MoveExport(t) ==
    /\ th[t].pc = "move"
    /\ \E stamp \in wnow..MaxStamp :
          /\ wnow' = stamp
          /\ IF xml[th[t].job] = "valid"
             THEN /\ archive' = MoveInto(archive, owner[th[t].job], stamp, th[t].job)
                  /\ xml' = [xml EXCEPT ![th[t].job] = "archived"]
                  /\ SetT(t, [th[t] EXCEPT !.pc = "unlink"])
             ELSE /\ UNCHANGED <<xml, archive>>
                  /\ SetT(t, [th[t] EXCEPT !.pc = "finally", !.failed = TRUE])
    /\ UNCHANGED <<avars, up, export, owner, desc, processing, notifs, attempts>>

\* job_file.unlink(); the FileNotFoundError of a descriptor that is gone by
\* now is caught
UnlinkDescriptor(t) ==
    /\ th[t].pc = "unlink"
    /\ desc' = [desc EXCEPT ![th[t].job] = "gone"]
    /\ SetT(t, [th[t] EXCEPT !.pc = "finally"])
    /\ UNCHANGED <<avars, up, export, owner, archive, wnow, xml, processing, notifs, attempts>>

\* user_processed_dir.mkdir(...) or shutil.move(...) raises an OSError (no
\* permission, disk full, ...), which line 308 catches: nothing was moved, or,
\* on a move across file systems, the copy was made and the source stayed
\* (variant: the error is swallowed and the success branch goes on)
MoveFails_GoesOn(t) ==
    /\ th[t].pc = "move"
    /\ xml[th[t].job] = "valid"
    /\ \/ UNCHANGED <<archive, wnow>>
       \/ \E stamp \in wnow..MaxStamp :
             /\ wnow' = stamp
             /\ archive' = MoveInto(archive, owner[th[t].job], stamp, th[t].job)
    /\ SetT(t, [th[t] EXCEPT !.pc = "unlink", !.failed = TRUE])
    /\ UNCHANGED <<avars, up, export, owner, desc, xml, processing, notifs, attempts>>

MoveFails(t) ==
    /\ th[t].pc = "move"
    /\ xml[th[t].job] = "valid"
    /\ \/ UNCHANGED <<archive, wnow>>
       \/ \E stamp \in wnow..MaxStamp :
             /\ wnow' = stamp
             /\ archive' = MoveInto(archive, owner[th[t].job], stamp, th[t].job)
    /\ SetT(t, [th[t] EXCEPT !.pc = "finally", !.failed = TRUE])
    /\ UNCHANGED <<avars, up, export, owner, desc, xml, processing, notifs, attempts>>

\* job_file.unlink() raises an OSError other than FileNotFoundError, which
\* line 308 catches: the descriptor stays
UnlinkFails(t) ==
    /\ th[t].pc = "unlink"
    /\ desc[th[t].job] # "gone"
    /\ SetT(t, [th[t] EXCEPT !.pc = "finally", !.failed = TRUE])
    /\ UNCHANGED <<avars, up, export, owner, archive, wnow, desc, xml, processing, notifs,
                   attempts>>

\* finally: self.processing.discard(str(job_file)); an exception that was
\* not caught then leaves on_created and ends the thread that delivered the
\* notification
Finally(t) ==
    /\ th[t].pc = "finally"
    /\ processing' = processing \ {th[t].job}
    /\ SetT(t, [FreshThread EXCEPT !.pc = IF th[t].exc THEN "dead" ELSE "idle",
                                   !.ret = "done"])
    /\ UNCHANGED <<avars, up, export, owner, archive, wnow, desc, xml, notifs, attempts>>

\* the notifications delivered on thread t and what the callback does with them
Deliver(t) ==
    \/ \E j \in Jobs : OnCreated(t, j)
    \/ CheckInFlight(t)
    \/ AddInFlight(t)
    \/ ReadDescriptor(t)
    \/ CheckExport(t)
    \/ ParseExport(t)
    \/ PostUserInfo(t)
    \/ PostDailySummaries(t)
    \/ PostActivitySummaries(t)
    \/ MoveExport(t)
    \/ UnlinkDescriptor(t)
    \/ Finally(t)

\* ------------------------------------------------------ specifications
\* the command-line program
Init == AuthInit({None, "a"}, BOOLEAN) /\ UploadIdle /\ WatcherIdle /\ HealthIdle

\* the steps of the main thread
MainThread ==
    \/ ParseArgs
    \/ CallEnsureAuthenticated
    \/ SpawnServerThread
    \/ ReadyWaitDone
    \/ ReadyWaitExpired
    \/ ReadyFailCheck
    \/ ReadyFailShutdown
    \/ ReadyFailShutdownReturn
    \/ ReadyFailReturn
    \/ BuildAuthUrl
    \/ OpenBrowser
    \/ SetDeadline
    \/ LoopCheckSuccess
    \/ LoopCheckCancel
    \/ LoopCheckRemaining
    \/ LoopWaitReturn
    \/ FinallyCheck
    \/ FinallyShutdown
    \/ FinallyShutdownReturn
    \/ FinallyJoin
    \/ ReturnAfterWait
    \/ MainCheckCancel
    \/ MainCheckToken
    \/ ValidateToken
    \/ ClearStoredToken
    \/ Export
    \/ KeyboardInterruptCheck
    \/ KeyboardInterruptShutdown
    \/ KeyboardInterruptShutdownReturn
    \/ KeyboardInterruptExit

Next ==
    \/ MainThread
    \/ Sigint
    \/ Tick
    \/ \E s \in Sessions : Listener(s)

Spec == Init /\ [][Next]_vars

\* the listener thread with do_GET taken statement by statement
ListenerByStatement(s) ==
    \/ Bind(s)
    \/ RecordInstance(s)
    \/ RecordPort(s)
    \/ SetReady(s)
    \/ ServeEnter(s)
    \/ ServeAccept(s)
    \/ HandleToken(s)
    \/ ServeExit(s)

\* the command-line program with a keyring that may refuse to write
NextHandler ==
    \/ MainThread
    \/ Sigint
    \/ Tick
    \/ \E s \in Sessions : ListenerByStatement(s)

SpecHandler == Init /\ [][NextHandler]_vars

\* the command-line program with its threads scheduled: the main thread and
\* every listener thread go on whenever they can, a handler that was entered
\* gets its request, and the time of a timed wait passes.  No request has to
\* arrive and no SIGINT has to come.
NextLive ==
    \/ MainThread
    \/ Sigint
    \/ TickWait
    \/ \E s \in Sessions : Listener(s)

SpecLive ==
    /\ Init
    /\ [][NextLive]_vars
    /\ WF_vars(MainThread)
    /\ WF_vars(TickWait)
    /\ \A s \in Sessions : WF_vars(Scheduled(s))

\* the command-line program before it starts
AuthIdle == AuthInit({None}, {FALSE})

\* one call of the chunked uploader
UploadNext == PostInBatches
InitUpload == AuthIdle /\ UploadInit /\ WatcherIdle /\ HealthIdle
SpecUpload == InitUpload /\ [][UploadNext]_vars

\* one call of validate_token
ValidateNext == ValidateCall
InitValidate == AuthIdle /\ UploadIdle /\ WatcherIdle /\ HealthInit
SpecValidate == InitValidate /\ [][ValidateNext]_vars

\* the watcher as main() runs it: every notification on the observer's thread
WatcherNext == Deliver(Dispatcher)
InitWatcher == AuthIdle /\ UploadIdle /\ WatcherInit /\ HealthIdle
SpecWatcher == InitWatcher /\ [][WatcherNext]_vars

\* the watcher's callback under notifications delivered on several threads
ConcurrentNext == \E t \in Threads : Deliver(t)
\* the descriptors of one user (user_id only names the archive directory)
InitConcurrent == InitWatcher /\ owner = [j \in Jobs |-> "u1"]
SpecConcurrent == InitConcurrent /\ [][ConcurrentNext]_vars

\* the watcher's callback, on any threads, over a file system that may refuse
\* to move the export or to delete the descriptor
FaultyNext == \E t \in Threads : Deliver(t) \/ MoveFails(t) \/ UnlinkFails(t)
\* on well-formed descriptors: the others never reach the success branch
InitFaulty == InitConcurrent /\ desc = [j \in Jobs |-> "ok"]
SpecFaulty == InitFaulty /\ [][FaultyNext]_vars

\* the watcher on well-formed descriptors, with exports of any content
InitProcess ==
    /\ AuthIdle
    /\ UploadIdle
    /\ HealthIdle
    /\ desc = [j \in Jobs |-> "ok"]
    /\ xml \in [Jobs -> AtSource]
    /\ processing = {}
    /\ th = [t \in Threads |-> FreshThread]
    /\ notifs = [j \in Jobs |-> 0]
    /\ attempts = [j \in Jobs |-> 0]
    /\ export \in [Jobs -> Exports]
    /\ owner = [j \in Jobs |-> "u1"]
    /\ archive = {}
    /\ wnow = 0
SpecProcess == InitProcess /\ [][WatcherNext]_vars

\* ================================================================ claims
\* ensure_authenticated has just handed control back: by a return, or by the
\* KeyboardInterrupt it raised
Returned == pc = "m_chk_cancel"
Interrupted == pc = "ki_check"
HandedBack == Returned \/ Interrupted
StartedListener == call \in Sessions /\ lst[call].pc # "idle"

\* C1: whenever ensure_authenticated has started a listener, then at every
\* hand-back (return or exception) that listener's thread has ended and its
\* socket is closed.
C1_TeardownOnEveryExit ==
    (HandedBack /\ StartedListener)
        => (lst[call].pc = "done" /\ ~lst[call].sockOpen)

\* C2: a call that starts a listener observes only the readiness and success
\* signals of that listener, reads that listener's port and shuts down that
\* listener, never something left over from the earlier call.
C2_OwnListenerOnly ==
    (HandedBack /\ StartedListener)
        => /\ ea.obsReady # "stale"
           /\ ea.obsSuccess # "stale"
           /\ ea.urlPort # NoPort => (lst[call].sockOpen /\ ea.urlPort = lst[call].port)
           /\ ea.targets \subseteq {call}

\* C3: a call that found no cached token and whose listener received no
\* token-bearing callback comes back without a token from the wait only at or
\* after its deadline.
C3_TimedOutOnlyAtDeadline ==
    (Returned /\ StartedListener /\ ea.enteredWait /\ ea.retLine \in {172, 174}
       /\ ea.ret = None /\ lst[call].ntok = 0)
        => clock >= deadline

\* C4: with the cancellation flag set when the call is made, a call that
\* enters the wait (and gets no token callback) ends by the cancellation
\* exception after at most one poll, with its listener thread ended.
C4_PresetCancelEndsCancelled ==
    (HandedBack /\ StartedListener /\ ea.cancelAtEntry /\ ea.enteredWait
       /\ lst[call].ntok = 0)
        => (Interrupted /\ ea.polls <= 1 /\ lst[call].pc = "done")

\* C5: when the token store holds a token at the call, the call returns that
\* token and has started no listener, opened no browser and entered no wait.
C5_CachedTokenReturned ==
    (Returned /\ ea.entryToken # None)
        => /\ ea.ret = ea.entryToken
           /\ ea.retLine = 109
           /\ lst[call].pc = "idle"
           /\ ~ea.browser
           /\ ~ea.enteredWait

C5_Witness == Returned /\ ea.entryToken = "a" /\ ea.ret = "a" /\ lst[call].pc = "idle"

\* C6: a listener that found the preferred port in use holds a socket on a
\* fallback port, and once it is past its start-up it has signalled readiness
\* with the port it reported being the port it bound; it never ends without
\* having signalled readiness.
C6_FallbackPortReported ==
    \A s \in Sessions :
        lst[s].prefBusy =>
            /\ lst[s].sockOpen
            /\ lst[s].port \in EphemeralPorts
            /\ lst[s].port # PreferredPort
            /\ lst[s].pc \in {"serve_enter", "serving", "handling", "done"}
                  => /\ lst[s].readySet
                     /\ SERVER_READY
                     /\ lst[s].portAtReady = lst[s].port

C6_Witness ==
    \E s \in Sessions :
        /\ lst[s].prefBusy
        /\ lst[s].pc = "serving"
        /\ lst[s].portAtReady = lst[s].port
        /\ lst[s].port \in EphemeralPorts

\* a step in which listener s finishes do_GET
Handled(s) == lst[s].pc = "handling" /\ lst'[s].pc = "serving"

\* C7: a callback request with no token parameter, or only blank ones, is
\* answered 400 and leaves the success flag and the token store unchanged.
C7_NoTokenNoEffect ==
    [][\A s \in Sessions :
          (Handled(s) /\ lastGet'.sent \in {"absent", "blank"})
              => /\ lastGet'.status = 400
                 /\ tokenStore' = tokenStore
                 /\ AUTH_SUCCESS' = AUTH_SUCCESS]_vars

C7_Witness ==
    /\ lastGet.status = 400
    /\ lastGet.sent = "blank"
    /\ tokenStore = None
    /\ ~AUTH_SUCCESS

\* C8: a callback request that carries a non-blank token value gets that
\* token written to the token store, the success flag set and a 200 answer.
C8_TokenStoredAndSignalled ==
    [][\A s \in Sessions :
          (Handled(s) /\ lastGet'.sent \notin {"absent", "blank"})
              => /\ tokenStore' = lastGet'.sent
                 /\ AUTH_SUCCESS'
                 /\ lastGet'.status = 200]_vars

C8_Witness ==
    /\ lastGet.status = 200
    /\ lastGet.sent = "b"
    /\ tokenStore = "b"
    /\ AUTH_SUCCESS

\* C9: however many token-bearing requests one listener handles, it raises
\* the success signal (takes the flag from unset to set) at most once.
C9_SuccessRaisedAtMostOnce == \A s \in Sessions : lst[s].raised <= 1

C9_Witness == \E s \in Sessions : lst[s].ntok >= 2 /\ lst[s].raised = 1

\* C10: when the readiness wait expired, the call has opened no browser and
\* its listener does not go on to serve.
C10_ReadinessFailureStopsListener ==
    (Returned /\ ea.retLine = 127)
        => (~ea.browser /\ lst[call].pc \notin {"serving", "handling"})

\* C11: when validate_token gives false for the first token the flow clears
\* the stored token and calls ensure_authenticated exactly once more; a second
\* false ends the run with status 1; no run makes more than two calls of
\* ensure_authenticated or more than two validations.
C11_AtMostOneRetry ==
    /\ call <= 2
    /\ flow.nvalid <= 2
    /\ flow.nvalid <= call
    /\ call = 2 => (flow.ninvalid >= 1 /\ flow.cleared # "no")
    /\ flow.ninvalid >= 1 =>
          \/ pc = "m_clear" /\ call = 1 /\ flow.cleared = "no"
          \/ pc = "m_call" /\ call = 1 /\ flow.cleared # "no"
          \/ call = 2 /\ flow.cleared # "no"
    /\ (pc = "m_call" /\ flow.cleared = "deleted") => tokenStore = None
    /\ flow.ninvalid = 2 => (pc = "exited" /\ exitCode = 1)
C11_Witness ==
    /\ pc = "exited"
    /\ exitCode = 1
    /\ call = 2
    /\ flow.nvalid = 2
    /\ flow.ninvalid = 2
    /\ flow.cleared = "deleted"

\* C12: validate_token raises nothing to its caller, whatever the health call
\* does: connection failure, status that is not 2xx, timeout while connecting
\* or while the response is read.
C12_ValidatorNeverRaises == ~flow.raised

\* ---- the chunked uploader
UploadReturned == up.pc = "returned"
\* ceil(n / c) and the i-th chunk of the list, counted from 1
NChunks == (Len(up.items) + up.chunk_size - 1) \div up.chunk_size
ExpectedChunk(i) ==
    SubSeq(up.items, (i - 1) * up.chunk_size + 1,
           Min(i * up.chunk_size, Len(up.items)))
\* the POSTs of the call that do not succeed, among the chunks of the list
FailingChunks == {k \in 1..NChunks : k \in up.fails}
FirstFailing == CHOOSE k \in FailingChunks : \A m \in FailingChunks : k <= m
RECURSIVE Concat(_)
Concat(chunks) == IF chunks = <<>> THEN <<>> ELSE Head(chunks) \o Concat(Tail(chunks))

\* C13: the first chunk whose POST does not succeed makes the upload return
\* False at once: it is the last POST issued, and the POSTs issued are the
\* chunks up to it, in order.
C13_FirstFailureStops ==
    (UploadReturned /\ up.chunk_size >= 1 /\ FailingChunks # {})
        => /\ up.ret = "False"
           /\ Len(up.posts) = FirstFailing
           /\ \A i \in 1..FirstFailing : up.posts[i] = ExpectedChunk(i)
C13_Witness ==
    /\ UploadReturned
    /\ up.chunk_size >= 1
    /\ FailingChunks # {}
    /\ 1 < FirstFailing
    /\ FirstFailing < NChunks
    /\ up.ret = "False"

\* C14: with n items, chunk size c >= 1 and every POST succeeding, the upload
\* issues exactly ceil(n/c) POSTs of at most c items each, and the chunks in
\* the order sent make up the original list.
C14_ChunksPartitionItems ==
    (UploadReturned /\ up.chunk_size >= 1 /\ FailingChunks = {})
        => /\ up.ret = "True"
           /\ Len(up.posts) = NChunks
           /\ \A i \in 1..Len(up.posts) : Len(up.posts[i]) <= up.chunk_size
           /\ Concat(up.posts) = up.items
C14_Witness ==
    /\ UploadReturned
    /\ up.chunk_size = 2
    /\ Len(up.items) = 3
    /\ FailingChunks = {}
    /\ up.posts = << <<1, 2>>, <<3>> >>

\* C15: an upload of an empty item list returns True and issues no POST.
C15_EmptyListNoPost ==
    (UploadReturned /\ up.items = <<>>) => (up.ret = "True" /\ up.posts = <<>>)
C15_Witness ==
    /\ UploadReturned
    /\ up.items = <<>>
    /\ up.chunk_size = 2
    /\ 1 \in up.fails
    /\ up.ret = "True"

\* ---- the watcher
\* thread t has put its descriptor path into the in-flight set and has not
\* yet taken it out
ClaimedPcs == {"read", "exists", "parse", "post_user", "post_daily",
               "post_activity", "move", "unlink", "finally"}
Claimed(t, j) == th[t].job = j /\ th[t].pc \in ClaimedPcs

\* C16: two creation notifications for the same descriptor path, one right
\* after the other, make the job's export be parsed and uploaded once, however
\* the first processing ended.
C16_ProcessedOnce == \A j \in Jobs : attempts[j] <= 1

\* C17: under notifications delivered on different threads at most one
\* thread at a time holds a given descriptor path as in flight.
C17_OneClaimant ==
    \A j \in Jobs : \A t1, t2 \in Threads :
        (Claimed(t1, j) /\ Claimed(t2, j)) => t1 = t2

\* C18: a notification for a path that is in the in-flight set returns without
\* reading the descriptor, posting, moving a file or changing the set.
C18_InFlightIgnored ==
    [][\A t \in Threads :
          (th[t].pc = "check" /\ th[t].job \in processing /\ th'[t] # th[t])
              => /\ th'[t].pc = "idle"
                 /\ th'[t].ret = "in_flight"
                 /\ UNCHANGED <<processing, desc, xml, attempts>>]_vars
C18_Witness ==
    \E t, o \in Threads :
        /\ th[t].pc = "idle"
        /\ th[t].ret = "in_flight"
        /\ \E j \in Jobs : Claimed(o, j) /\ j \in processing /\ notifs[j] = 2

\* C19: a descriptor path is in the in-flight set exactly while its job is
\* being processed, so it is out of the set once the processing has ended,
\* however it ended.
C19_InFlightWhileProcessing ==
    \A j \in Jobs : (j \in processing) <=> (\E t \in Threads : Claimed(t, j))
C19_Witness ==
    /\ th[Dispatcher].pc = "dead"
    /\ th[Dispatcher].ret = "done"
    /\ processing = {}
    /\ \E j \in Jobs : desc[j] = "wrongtype" /\ notifs[j] = 1

\* C20: a job of which a step failed (the user-info POST or a chunk of the
\* summaries uploads included) does not get its export moved to the archive
\* nor its descriptor deleted.
C20_FailedStepLeavesJob ==
    \A t \in Threads : th[t].pc = "unlink" => ~th[t].failed

\* C21: a job processed successfully has its export moved into the archive
\* directory of the job's user and then its descriptor deleted: the export
\* is no longer at its source path and the descriptor no longer exists.
C21_ArchivedThenDeleted ==
    /\ \A t \in Threads :
          (th[t].pc = "finally" /\ th[t].success)
              => /\ xml[th[t].job] = "archived"
                 /\ desc[th[t].job] = "gone"
                 /\ \E f \in archive : f.job = th[t].job /\ f.user = owner[th[t].job]
    /\ \A j \in Jobs : desc[j] = "gone" => xml[j] = "archived"
    /\ \A f \in archive : f.user = owner[f.job] /\ xml[f.job] = "archived"
C21_Witness ==
    /\ th[Dispatcher].pc = "idle"
    /\ th[Dispatcher].ret = "done"
    /\ \E j \in Jobs :
          /\ owner[j] = "unknown"
          /\ xml[j] = "archived"
          /\ desc[j] = "gone"
          /\ \E f \in archive : f.job = j /\ f.user = "unknown"

\* C22: a job whose descriptor names an export that does not exist issues no
\* POST, keeps its descriptor, adds nothing to the archive, and is taken up
\* again only by a further notification, never by the watcher itself.
C22_MissingExportAbandoned ==
    /\ [](\A j \in Jobs :
            xml[j] = "missing"
                => /\ attempts[j] = 0
                   /\ desc[j] # "gone"
                   /\ \A f \in archive : f.job # j
                   /\ \A t \in Threads :
                         th[t].job = j
                             => /\ th[t].log = <<>>
                                /\ th[t].pc \in {"check", "add", "read", "exists",
                                                "finally"})
    /\ [][\A t \in Threads :
             (th[t].pc = "idle" /\ th'[t].pc # "idle")
                 => \E j \in Jobs : th'[t].job = j /\ notifs'[j] = notifs[j] + 1]_vars
C22_Witness ==
    /\ th[Dispatcher].pc = "idle"
    /\ th[Dispatcher].ret = "done"
    /\ \E j \in Jobs :
          /\ xml[j] = "missing"
          /\ desc[j] = "ok"
          /\ notifs[j] = 2
          /\ attempts[j] = 0

\* C23: a malformed descriptor (no JSON, no object, a missing field, a field
\* of the wrong type) fails only its own job: no exception leaves the
\* notification callback, so the thread that delivers notifications lives on.
C23_NoExceptionLeavesCallback == \A t \in Threads : th[t].pc # "dead"

\* ---- the POSTs of process_xml
\* process_xml has ended on thread t: it returned True, or False for an export
\* that parsed and could not be aggregated
UploadsDone(t) == th[t].pc = "move"
ParsedAndEnded(t) ==
    UploadsDone(t) \/ (th[t].pc = "finally" /\ xml[th[t].job] = "unaggregable")
PostsTo(t, endpoint) == SelectSeq(th[t].log, LAMBDA e : e.ep = endpoint)
Rank(endpoint) ==
    CASE endpoint = "user-infos" -> 1
      [] endpoint = "daily-summaries" -> 2
      [] endpoint = "activity-summaries" -> 3
InOrder(log) ==
    \A i, k \in 1..Len(log) : i < k => Rank(log[i].ep) <= Rank(log[k].ep)
RECURSIVE ItemsIn(_)
ItemsIn(posts) ==
    IF posts = <<>> THEN <<>> ELSE Head(posts).items \o ItemsIn(Tail(posts))
DailyComplete(t) ==
    ItemsIn(PostsTo(t, "daily-summaries")) = ItemsOf(export[th[t].job].days)
ActivityDated(t) ==
    \A i \in 1..Len(th[t].log) :
        th[t].log[i].ep = "activity-summaries" => th[t].log[i].date

\* C24 as stated: for every job whose export parses there is exactly one
\* user-infos POST, then the daily-summaries POSTs, then the
\* activity-summaries POSTs; the daily-summaries POSTs together carry one
\* summary per day and every activity-summaries payload has the export date.
C24_Original ==
    \A t \in Threads :
        ParsedAndEnded(t)
            => /\ Len(PostsTo(t, "user-infos")) = 1
               /\ InOrder(th[t].log)
               /\ DailyComplete(t)
               /\ ActivityDated(t)
\* C24 amended: for every job whose export was parsed and aggregated, there
\* is exactly one user-infos POST, then the daily-summaries POSTs, then the
\* activity-summaries POSTs; every activity-summaries payload has the export
\* date; the daily-summaries POSTs together carry one summary per day when
\* each of them succeeded.
C24_PostsInOrder ==
    \A t \in Threads :
        UploadsDone(t)
            => /\ Len(PostsTo(t, "user-infos")) = 1
               /\ InOrder(th[t].log)
               /\ ActivityDated(t)
               /\ (\A i \in 1..Len(th[t].log) :
                      th[t].log[i].ep = "daily-summaries" => th[t].log[i].ok)
                     => DailyComplete(t)
C24_Witness ==
    /\ UploadsDone(Dispatcher)
    /\ export[th[Dispatcher].job] = [days |-> DefaultChunk + 1, acts |-> DefaultChunk + 1]
    /\ Len(th[Dispatcher].log) = 5
    /\ \A i \in 1..5 : th[Dispatcher].log[i].ok
    /\ DailyComplete(Dispatcher)

\* ---- the exit status
\* how a run ended: with no error, because authentication failed (timeout or
\* listener failure, cancellation, token invalid after re-authentication), or
\* because the command line was malformed
Outcomes == {"no error", "authentication failed", "malformed input"}
OutcomeOf(reason) ==
    CASE reason = "ok" -> "no error"
      [] reason \in {"no_token", "cancelled", "invalid"} -> "authentication failed"
      [] reason = "input" -> "malformed input"
      [] OTHER -> "other"
Ended == pc = "exited" /\ OutcomeOf(flow.end) \in Outcomes

\* the status of a run that ends by falling off the end of the module, and
\* the status given to sys.exit where authentication has failed
NoErrorStatus == 0
AuthFailedStatus == 1

\* C25: the exit status tells the three outcomes apart: a run without error,
\* a run ended by failed authentication and a run ended by malformed input
\* end with three different values.
C25_StatusTellsOutcome ==
    Ended =>
        /\ NoErrorStatus # AuthFailedStatus
        /\ OutcomeOf(flow.end) = "no error" => exitCode = NoErrorStatus
        /\ OutcomeOf(flow.end) = "authentication failed" => exitCode = AuthFailedStatus
        /\ OutcomeOf(flow.end) = "malformed input"
              => exitCode \notin {NoErrorStatus, AuthFailedStatus}

\* C26: archiving never replaces an earlier archive: every job that was
\* archived, two jobs of one user archived within the same second included,
\* is a file of its own in its user's archive directory.
C26_ArchiveKeepsEveryJob ==
    \A j \in Jobs : xml[j] = "archived" => \E f \in archive : f.job = j

\* C27: the notification callback does not block: the thread that delivers
\* notifications does not itself carry out the debounce delay and the job's
\* parsing, uploads and archiving, so it stays free to deliver a notification
\* for another descriptor while a job is processing.
C27_CallbackDoesNotBlock == th[Dispatcher].pc \notin ClaimedPcs

\* C28: the callback address in the authorization URL of a session has the
\* port that session's own listener is bound to: not the preferred port after
\* a fallback, and not a port an earlier session recorded.
C28_UrlHasOwnPort ==
    (call \in Sessions /\ ea.urlPort # NoPort)
        => /\ lst[call].sockOpen
           /\ ea.urlPort = lst[call].port

\* the main thread is inside ensure_authenticated
InCall ==
    pc \in {"ea_spawn", "ea_wait_ready", "rf_check", "rf_shutdown", "rf_shutwait",
            "rf_join", "ea_url", "ea_browser", "ea_deadline", "loop_success",
            "loop_cancel", "loop_remaining", "loop_wait", "fin_check", "fin_shutdown",
            "fin_shutwait", "fin_join", "ea_return"}
C30_BrowserFailureNotFatal ==
    (Returned /\ StartedListener /\ ea.browser)
        => /\ ea.enteredWait
           /\ (lst[call].ntok > 0 /\ lst[call].intime /\ ~CANCEL_EVENT)
                 => (ea.success /\ ea.retLine = 174 /\ ea.ret \notin {None, ""})

\* listener s is in its serve loop
Serving(s) == lst[s].pc \in {"serving", "handling"}

\* C31: a listener leaves its serve loop only in a step that finds a shutdown
\* requested, so it is still serving after every request it answered with
\* 400; and a token-bearing request it handles after requests answered with
\* 400 stores its token and sets the success flag.
C31_ServesUntilShutDown ==
    [][\A s \in Sessions :
          /\ (Serving(s) /\ ~Serving(s)') => lst[s].shutdown_request
          /\ (Handled(s) /\ lst[s].nreq >= 2 /\ lst[s].ntok = 0
                /\ lastGet'.sent \notin {"absent", "blank"})
               => (tokenStore' = lastGet'.sent /\ AUTH_SUCCESS' /\ lastGet'.status = 200)]_vars

\* a listener that answered 400 first has then handled a token-bearing request
C31_Witness ==
    /\ call = 1
    /\ lst[1].pc = "serving"
    /\ lst[1].nreq = 2
    /\ lst[1].ntok = 1
    /\ lst[1].raised = 1
    /\ lastGet = [status |-> 200, sent |-> "a"]
    /\ tokenStore = "a"
    /\ AUTH_SUCCESS

\* no thread is at work on job j
ProcessingEnded(j) == \A t \in Threads : th[t].job = j => th[t].pc \in {"idle", "dead"}
\* job j was taken up and has ended without its descriptor being deleted,
\* which only the success branch does
FailedAndEnded(j) == notifs[j] > 0 /\ desc[j] # "gone" /\ ProcessingEnded(j)

\* C32: once a job has failed and its processing has ended, its path is no
\* longer marked in flight and the thread that delivers notifications is
\* there to take the next one; a further notification for it goes on past
\* the in-flight test; and a job is never taken up more often than it was
\* notified.
C32_FailedJobRetriedOnNotification ==
    /\ \A j \in Jobs :
          /\ FailedAndEnded(j) => (j \notin processing /\ th[Dispatcher].pc # "dead")
          /\ attempts[j] <= notifs[j]
    /\ (th[Dispatcher].pc = "check" /\ notifs[th[Dispatcher].job] >= 2)
          => th[Dispatcher].job \notin processing

\* C33: a call of validate_token returns True exactly when the endpoint
\* answered with status 200, and returns False for every other status it
\* answered with, the other 2xx statuses included.
C33_ValidOnlyOn200 ==
    health.pc = "returned" =>
        /\ health.ret = "True" <=> (health.kind = "status" /\ health.status = 200)
        /\ (health.kind = "status" /\ health.status # 200) => health.ret = "False"

\* the endpoint answered 204 and the call returned False
C33_Witness ==
    /\ health.pc = "returned"
    /\ health.kind = "status"
    /\ health.status = 204
    /\ health.ret = "False"

\* C34: the success flag goes up only in a state where the token is already
\* in the store, so a call that returns after it saw the flag raised by its
\* own listener returns a token; and a handler whose write to the store fails
\* leaves the flag as it was.
C34_StoredBeforeSignalled ==
    /\ []((Returned /\ ea.obsSuccess = "own")
            => (ea.retLine = 174 /\ ea.ret \notin {None, ""}))
    /\ [][/\ (AUTH_SUCCESS' /\ ~AUTH_SUCCESS) => tokenStore \notin {None, ""}
          /\ \A s \in Sessions :
                (lst[s].pc = "handling" /\ lst'[s].pc = "serving" /\ lastGet'.status = 0)
                    => UNCHANGED <<AUTH_SUCCESS, tokenStore>>]_vars

\* a call whose listener handled two requests, and stored and signalled the
\* token of the second one only, has returned that token
C34_Witness ==
    /\ Returned
    /\ ea.obsSuccess = "own"
    /\ ea.ret = "b"
    /\ lst[call].nreq = 2
    /\ lst[call].ntok = 1
    /\ lastGet = [status |-> 200, sent |-> "b"]

\* C35: in every state where the readiness flag is set and listener s has
\* raised it, the recorded handle is that of s and the recorded port is the
\* port s bound.
C35_ReadyMeansRecorded ==
    \A s \in Sessions :
        (SERVER_READY /\ lst[s].readySet)
            => (SERVER_STATE.instance = s /\ SERVER_STATE.port = lst[s].port)

\* C36: once a call of ensure_authenticated has handed control back with
\* cancellation requested, no step of the run validates a token, reaches the
\* export with its ingestion POSTs, or starts another call, whatever the call
\* returned.
C36_CancelledRunDoesNothingMore ==
    [][ea.cancelAtReturn =>
          /\ flow'.nvalid = flow.nvalid
          /\ pc' \notin {"m_validate", "m_export", "m_call"}
          /\ flow'.end # "ok"
          /\ ea'.cancelAtReturn]_vars

\* a call whose wait loop saw the success flag first came back with the token
\* and with cancellation requested, and the run ended as cancelled with
\* nothing validated
C36_Witness ==
    /\ pc = "exited"
    /\ exitCode = 1
    /\ flow.end = "cancelled"
    /\ flow.nvalid = 0
    /\ ea.cancelAtReturn
    /\ ea.ret = "b"

\* C37: an upload that returns True has sent every item of its list, in POSTs
\* that all succeeded, whatever the integer chunk_size.
C37_SuccessMeansAllSent ==
    (UploadReturned /\ up.ret = "True")
        => /\ Concat(up.posts) = up.items
           /\ \A i \in 1..Len(up.posts) : i \notin up.fails

\* C38: in every state, a descriptor that has been deleted has its export no
\* longer at its source path but moved into the archive, also after a move or
\* a deletion that failed.
C38_DeletedOnlyAfterArchived ==
    \A j \in Jobs : desc[j] = "gone" => xml[j] = "archived"

\* a job whose export could not be moved at the first attempt was archived
\* and deleted at the second
C38_Witness ==
    \E j \in Jobs :
        /\ attempts[j] = 2
        /\ desc[j] = "gone"
        /\ xml[j] = "archived"
        /\ \A t \in Threads : th[t].pc = "idle"

\* C39: the command-line flow issues no ingestion POST with a token unless
\* validate_token has returned true for that same token earlier in the run:
\* the export posts only with the token the last validation accepted, and
\* only a step that leaves the validation with True leads to the export.
C39_PostsOnlyValidatedToken ==
    /\ [](flow.posted # None => flow.posted = flow.validated)
    /\ [][(pc # "m_export" /\ pc' = "m_export")
             => (pc = "m_validate" /\ flow'.validated = ea.ret)]_vars
    /\ [][flow'.posted # flow.posted => (pc = "m_export" /\ flow'.posted = ea.ret)]_vars
    /\ [][pc = "m_export" => (ea'.ret = ea.ret /\ flow'.validated = flow.validated)]_vars

\* the first token was refused, the token of the second authentication was
\* accepted, and the export posted with it
C39_Witness ==
    /\ flow.posted # None
    /\ flow.ninvalid = 1
    /\ flow.nvalid = 2
    /\ flow.end = "ok"
====
